---- MODULE Spec2Model ----
(***************************************************************************)
(* Model of src/src/main.cpp: a 24-hour LED clock.  loop() refreshes the   *)
(* cached SunData when it is due, maps the current time and the sun times  *)
(* to LED indices and paints the frame: clear, daylight span, hour ticks,  *)
(* solstice markers, current-time marker, show.                            *)
(*                                                                         *)
(* millis() is an unsigned 32-bit counter.  TLC integers are 32-bit        *)
(* signed, so a millis value v is kept as two 16-bit limbs <<hi, lo>> with *)
(* v = hi * 65536 + lo, and the arithmetic below is arithmetic mod 2^32.   *)
(***************************************************************************)
EXTENDS Integers, Sequences, FiniteSets, TLC

VARIABLES
    pc,          \* "setup" before setup() has returned, "loop" afterwards
    ms,          \* millis() at the end of the last step (u32, limbs)
    sun,         \* static SunData sun of loop()
    leds,        \* CRGB leds[NUM_LEDS] as flushed by FastLED.show()
    daylight,    \* leds[] right after the daylight loop of the last tick
    accessed,    \* every index i used in an access leds[i] by the last tick
    prevSun,     \* sun at the start of the last tick
    rendered,    \* the SunData the last tick computed its LED positions from
    now,         \* millis() read by the update test of the last tick
    called,      \* the last tick called getSunData()
    ok,          \* ... and that call filled in the data
    currentSecond, \* currentSecond of the last tick
    sinceUpdate, \* ms from the assignment of prevSun.lastUpdate to `now`, -1 if none
    updateAge,   \* ms since getSunData() last assigned lastUpdate, -1 if it is unset
    callGap,     \* ms between the last tick's call and the call before it, -1 if none
    callAge,     \* ms since the most recent getSunData() call began, -1 if none
    ticks,       \* number of loop() iterations taken as steps so far
    layout,      \* what the build placed right behind leds[] in memory
    winterSolsticeSunrise,  \* the four const int globals of lines 92-95,
    winterSolsticeSunset,   \* initialised before setup()
    summerSolsticeSunrise,
    summerSolsticeSunset

vars == <<pc, ms, sun, leds, daylight, accessed, prevSun, rendered, now,
          called, ok, currentSecond, sinceUpdate, updateAge, callGap, callAge,
          ticks, layout, winterSolsticeSunrise, winterSolsticeSunset,
          summerSolsticeSunrise, summerSolsticeSunset>>

----------------------------------------------------------------------------
(* Bounds of the exploration *)

MaxTicks == 2
FetchMs == 1000
BootMs == 1500

----------------------------------------------------------------------------
(* Configuration constants *)

NUM_LEDS == 332
SECONDS_PER_LED == (24*60*60) \div NUM_LEDS
DelayMs == 1000
DayMs == 24*60*60*1000

Pixels == 0..(NUM_LEDS - 1)

Off == <<0, 0, 0>>
DimBlue == <<0, 0, 8>>
DimRed == <<32, 0, 0>>
Green == <<0, 255, 0>>
Yellow == <<255, 255, 0>>

Cleared == [i \in Pixels |-> Off]

----------------------------------------------------------------------------
(* unsigned long arithmetic, 32 bits, on limbs <<hi, lo>> *)

Limb == 2^16
Zero32 == <<0, 0>>
FromInt(n) == <<(n \div Limb) % Limb, n % Limb>>
Add32(a, n) ==
    LET lo == a[2] + (n % Limb)
        hi == a[1] + (n \div Limb) + (lo \div Limb)
    IN  <<hi % Limb, lo % Limb>>
Sub32(a, b) ==
    LET borrow == IF a[2] < b[2] THEN 1 ELSE 0
    IN  <<(a[1] - b[1] - borrow + 2 * Limb) % Limb, (a[2] - b[2] + Limb) % Limb>>
Gt32(a, b) == a[1] > b[1] \/ (a[1] = b[1] /\ a[2] > b[2])

----------------------------------------------------------------------------
(* Solstice time definitions *)

\* A character is its code (an unsigned char); a string is the sequence of
\* the characters in front of its terminating NUL.
IsDigit(c) == c \in 48..57                    \* '0' .. '9'
DigitVal(c) == c - 48
IsSpace(c) == c \in {32, 9, 10, 11, 12, 13}   \* isspace(): ' ' \t \n \v \f \r

\* int is 32 bits wide.
IntMax == (2^30 - 1) + 2^30
IntMin == (0 - IntMax) - 1

\* What an int that was never assigned may hold when it is read: whatever
\* the stack holds, any int.
Indeterminate == IntMin..IntMax

\* int arithmetic, on the two's-complement limbs of the operands.
ToInt(a) ==
    IF a[1] >= Limb \div 2 THEN (a[1] - Limb) * Limb + a[2] ELSE a[1] * Limb + a[2]
Mul32(a, k) ==
    LET lo == a[2] * k
        hi == a[1] * k + (lo \div Limb)
    IN  <<hi % Limb, lo % Limb>>

\* The digits read so far: their value mod 2^64 as four limbs, most
\* significant first, and whether the value has reached 2^64.
NoDigits == [mag |-> <<0, 0, 0, 0>>, over |-> FALSE]
Shift10(acc, d) ==
    LET c0 == acc.mag[4] * 10 + d
        c1 == acc.mag[3] * 10 + (c0 \div Limb)
        c2 == acc.mag[2] * 10 + (c1 \div Limb)
        c3 == acc.mag[1] * 10 + (c2 \div Limb)
    IN  [mag |-> <<c3 % Limb, c2 % Limb, c1 % Limb, c0 % Limb>>,
         over |-> acc.over \/ (c3 \div Limb) > 0]

RECURSIVE SkipSpace(_, _)
SkipSpace(str, pos) ==
    IF pos <= Len(str) /\ IsSpace(str[pos]) THEN SkipSpace(str, pos + 1) ELSE pos

RECURSIVE ScanDigits(_, _, _)
ScanDigits(str, pos, acc) ==
    IF pos <= Len(str) /\ IsDigit(str[pos])
    THEN ScanDigits(str, pos + 1, Shift10(acc, DigitVal(str[pos])))
    ELSE <<acc, pos>>

\* The digits acc, negated when neg, as an int and as a long of 64 bits.
FitsInt(neg, acc) ==
    /\ ~acc.over
    /\ acc.mag[1] = 0
    /\ acc.mag[2] = 0
    /\ \/ acc.mag[3] < Limb \div 2
       \/ neg /\ acc.mag[3] = Limb \div 2 /\ acc.mag[4] = 0
FitsLong64(neg, acc) ==
    /\ ~acc.over
    /\ \/ acc.mag[1] < Limb \div 2
       \/ neg /\ acc.mag = <<Limb \div 2, 0, 0, 0>>
Low32(neg, acc) ==
    LET low == <<acc.mag[3], acc.mag[4]>>
    IN  ToInt(IF neg THEN Sub32(Zero32, low) ELSE low)

\* What %d stores.  A number that an int cannot hold is undefined behaviour;
\* the C library converts with strtol() and stores the long as an int: with
\* a long of 64 bits the low 32 bits of the number, or of LONG_MAX/LONG_MIN
\* when the long cannot hold it either; with a long of 32 bits (the ESP32)
\* the number clamped to LONG_MAX/LONG_MIN.
Stored(neg, acc) ==
    IF FitsInt(neg, acc) THEN {Low32(neg, acc)}
    ELSE {IF FitsLong64(neg, acc) THEN Low32(neg, acc) ELSE IF neg THEN 0 ELSE -1,
          IF neg THEN IntMin ELSE IntMax}

\* sscanf's %d on a string of characters, from pos on: white space is
\* skipped, a sign is accepted, at least one decimal digit must follow.
\* Without a digit the conversion fails and nothing is assigned.
ScanInt(str, pos) ==
    LET p == SkipSpace(str, pos)
        signed == p <= Len(str) /\ str[p] \in {43, 45}      \* '+' '-'
        q == IF signed THEN p + 1 ELSE p
        d == ScanDigits(str, q, NoDigits)
    IN  IF d[2] = q
        THEN [ok |-> FALSE, values |-> {}, next |-> q]
        ELSE [ok |-> TRUE, values |-> Stored(signed /\ str[p] = 45, d[1]),
              next |-> d[2]]

\* The values convertTimeToMinutes(timeStr) can return.  sscanf("%d:%d")
\* stops at the first conversion or literal that does not match; hours and
\* minutes are not initialised, so what was not assigned is indeterminate.
\* minutes is assigned only if hours is, and with minutes any int the sum,
\* taken mod 2^32, is any int.
convertTimeToMinutes(timeStr) ==
    LET h == ScanInt(timeStr, 1)
        colon == h.ok /\ h.next <= Len(timeStr) /\ timeStr[h.next] = 58   \* ':'
        m == ScanInt(timeStr, h.next + 1)
    IN  IF colon /\ m.ok
        THEN {ToInt(Add32(Mul32(FromInt(hours), 60), minutes)) :
                  hours \in h.values, minutes \in m.values}
        ELSE Indeterminate

----------------------------------------------------------------------------
(* SunData and getSunData() *)

ZeroSunData ==
    [sunriseMinutes |-> 0, sunsetMinutes |-> 0, solarNoonMinutes |-> 0,
     daySeconds |-> 0, lastUpdate |-> Zero32]

\* What the provider can answer.  A tm is <<tm_hour, tm_min>> as strptime
\* leaves it (<<0, 0>> also when the timestamp does not parse).  A day is
\* <<sunrise, sunset, solar_noon>>.
Days ==
    {<<<<8, 47>>, <<16, 2>>, <<12, 0>>>>,    \* the winter solstice
     <<<<3, 47>>, <<20, 34>>, <<12, 10>>>>,  \* the summer solstice
     <<<<0, 0>>, <<23, 59>>, <<12, 0>>>>,    \* sunset in the last minute of the day
     <<<<8, 47>>, <<23, 59>>, <<12, 0>>>>,   \* the same, low byte of sunrise not 0
     <<<<8, 47>>, <<0, 0>>, <<12, 0>>>>,     \* sunset before sunrise
     <<<<0, 0>>, <<16, 2>>, <<8, 47>>>>,     \* solar noon at a solstice marker
     <<<<12, 0>>, <<12, 3>>, <<8, 47>>>>,    \* sunrise and sunset in one LED
     <<<<0, 0>>, <<0, 0>>, <<0, 0>>>>}       \* no timestamp parsed
DayLengths == {26100}

Failures ==
    {[httpCode |-> c, jsonOk |-> j, sunrise |-> <<0, 0>>, sunset |-> <<0, 0>>,
      solarNoon |-> <<0, 0>>, day_length |-> 0] :
        <<c, j>> \in {<<-1, FALSE>>, <<200, FALSE>>}}
Successes ==
    {[httpCode |-> 200, jsonOk |-> TRUE, sunrise |-> d[1], sunset |-> d[2],
      solarNoon |-> d[3], day_length |-> n] : <<d, n>> \in Days \X DayLengths}
Responses == Failures \cup Successes

Filled(resp) == resp.httpCode > 0 /\ resp.jsonOk

\* getSunData(): resp is the provider's answer, at is millis() at line 141.
getSunData(resp, at) ==
    IF Filled(resp)
    THEN [sunriseMinutes |-> resp.sunrise[1] * 60 + resp.sunrise[2],
          sunsetMinutes |-> resp.sunset[1] * 60 + resp.sunset[2],
          solarNoonMinutes |-> resp.solarNoon[1] * 60 + resp.solarNoon[2],
          daySeconds |-> resp.day_length,
          lastUpdate |-> at]
    ELSE ZeroSunData

----------------------------------------------------------------------------
(* loop(): update test and LED positions *)

\* Variant: the update also fires when exactly one day has elapsed.
UpdateDueFromDay(t, s) ==
    \/ Gt32(Sub32(t, s.lastUpdate), FromInt(DayMs))
    \/ Sub32(t, s.lastUpdate) = FromInt(DayMs)
    \/ s.lastUpdate = Zero32

UpdateDue(t, s) ==
    Gt32(Sub32(t, s.lastUpdate), FromInt(DayMs)) \/ s.lastUpdate = Zero32

\* localtime() as <<tm_hour, tm_min, tm_sec>>
LocalTimes ==
    {<<0, 0, 0>>, <<8, 47, 0>>, <<12, 0, 0>>, <<23, 58, 40>>, <<23, 59, 59>>}
SecondOfDay(lt) == (lt[1] * 60 + lt[2]) * 60 + lt[3]

ledPosition(cs) == cs \div SECONDS_PER_LED
sunriseLED(s) == (s.sunriseMinutes * 60) \div SECONDS_PER_LED
sunsetLED(s) == (s.sunsetMinutes * 60) \div SECONDS_PER_LED
solarNoonLED(s) == (s.solarNoonMinutes * 60) \div SECONDS_PER_LED

----------------------------------------------------------------------------
(* loop(): painting.  An index past the array addresses the memory the     *)
(* build placed behind leds[].  Two layouts are modelled: "apart", where   *)
(* that memory is padding or an object the program never reads, and        *)
(* "sunBehind", where loop()'s static sun starts at leds + NUM_LEDS, so    *)
(* that leds[NUM_LEDS] overlays the low three bytes of sun.sunriseMinutes. *)
(* adjR is the byte found where leds[NUM_LEDS].r would be.  No index above *)
(* NUM_LEDS is used as long as sunsetMinutes <= 1439.                      *)

Layouts == {"apart", "sunBehind"}

\* Variant: the daylight loop stops one short of sunsetLED.
DaylightVisitedExclusive(s) == sunriseLED(s)..(sunsetLED(s) - 1)

DaylightVisited(s) == sunriseLED(s)..sunsetLED(s)
DaylightRead(s) == DaylightVisited(s) \ {solarNoonLED(s)}
ReadR(buf, i, adjR) == IF i \in Pixels THEN buf[i][1] ELSE adjR
DaylightWritten(s, buf, adjR) == {i \in DaylightRead(s) : ReadR(buf, i, adjR) = 0}
PaintDaylight(s, buf, adjR) ==
    LET written == DaylightWritten(s, buf, adjR)
    IN  [i \in Pixels |-> IF i \in written THEN DimBlue ELSE buf[i]]

hourLED(hour) == (hour * 3600) \div SECONDS_PER_LED
\* Variant: hour ticks are painted without sparing the solar-noon LED.
HourWrittenAll(s) ==
    {hourLED(hour) : hour \in {h \in 0..23 : hourLED(h) >= 0 /\ hourLED(h) < NUM_LEDS}}

HourWritten(s) ==
    {hourLED(hour) : hour \in {h \in 0..23 :
        hourLED(h) >= 0 /\ hourLED(h) < NUM_LEDS /\ hourLED(h) # solarNoonLED(s)}}
PaintHours(s, buf) ==
    LET written == HourWritten(s)
    IN  [i \in Pixels |-> IF i \in written THEN DimRed ELSE buf[i]]

winterSolsticeSunriseLED == (winterSolsticeSunrise * 60) \div SECONDS_PER_LED
winterSolsticeSunsetLED == (winterSolsticeSunset * 60) \div SECONDS_PER_LED
summerSolsticeSunriseLED == (summerSolsticeSunrise * 60) \div SECONDS_PER_LED
summerSolsticeSunsetLED == (summerSolsticeSunset * 60) \div SECONDS_PER_LED

SolsticeLEDs ==
    {winterSolsticeSunriseLED, winterSolsticeSunsetLED,
     summerSolsticeSunriseLED, summerSolsticeSunsetLED}
SolsticeWritten == {p \in SolsticeLEDs : p >= 0 /\ p < NUM_LEDS}
\* Variant: a solstice marker is painted only on an LED that is still off.
PaintSolsticeIfOff(buf) ==
    LET written == SolsticeWritten
    IN  [i \in Pixels |-> IF i \in written /\ buf[i] = Off THEN Green ELSE buf[i]]

PaintSolstice(buf) ==
    LET written == SolsticeWritten
    IN  [i \in Pixels |-> IF i \in written THEN Green ELSE buf[i]]

\* Variant: the current-time marker does not spare the solar-noon LED.
CurrentWrittenAtNoon(s, cs) ==
    IF /\ ledPosition(cs) >= 0 /\ ledPosition(cs) < NUM_LEDS
       /\ ledPosition(cs) >= sunriseLED(s)
       /\ ledPosition(cs) <= sunsetLED(s)
    THEN {ledPosition(cs)}
    ELSE {}

CurrentWritten(s, cs) ==
    IF /\ ledPosition(cs) >= 0 /\ ledPosition(cs) < NUM_LEDS
       /\ ledPosition(cs) # solarNoonLED(s)
       /\ ledPosition(cs) >= sunriseLED(s)
       /\ ledPosition(cs) <= sunsetLED(s)
    THEN {ledPosition(cs)}
    ELSE {}
PaintCurrent(s, cs, buf) ==
    LET written == CurrentWritten(s, cs)
    IN  [i \in Pixels |-> IF i \in written THEN Yellow ELSE buf[i]]

Accessed(s, cs, adjR) ==
    DaylightRead(s) \cup DaylightWritten(s, Cleared, adjR) \cup HourWritten(s)
        \cup SolsticeWritten \cup CurrentWritten(s, cs)

\* The out-of-range read happens only when the daylight loop reaches an
\* index past the array; only then does the byte behind the array matter:
\* the low byte of sun.sunriseMinutes, or a byte of unknown content.
AdjacentBytes(s, lay) ==
    IF DaylightRead(s) \subseteq Pixels THEN {0}
    ELSE IF lay = "sunBehind" THEN {s.sunriseMinutes % 256}
    ELSE {0, 1}

\* sun after the daylight loop: the store leds[NUM_LEDS] = CRGB(0, 0, 8)
\* puts the bytes 0, 0, 8 into the low three bytes of sun.sunriseMinutes
\* (little-endian) when sun lies behind the array.
AfterDaylight(s, lay, adjR) ==
    IF lay = "sunBehind" /\ NUM_LEDS \in DaylightWritten(s, Cleared, adjR)
    THEN [s EXCEPT !.sunriseMinutes =
              (s.sunriseMinutes \div 2^24) * 2^24 + DimBlue[3] * 2^16
                  + DimBlue[2] * 2^8 + DimBlue[1]]
    ELSE s

----------------------------------------------------------------------------
(* The state machine *)

\* setup() blocks until WiFi is connected, for as long as that takes: the
\* first loop() may run shortly after boot or shortly before millis() wraps.
SetupEnds ==
    {FromInt(BootMs),
     Sub32(Zero32, FromInt(FetchMs)),
     Sub32(Zero32, FromInt(FetchMs + DelayMs))}

\* Time from the end of one step to the update test of the next one.  The
\* first loop() follows setup() at once; every later one follows the
\* delay(1000) that ends loop().  A longer advance stands for the
\* iterations in between, taken only when none of them calls getSunData():
\* they repaint the strip and change nothing else.
LongAdvances == {DayMs, DayMs + DelayMs}
Advances(n, m, s) ==
    IF n = 0 THEN {0}
    ELSE {DelayMs} \cup
         {adv \in LongAdvances : ~UpdateDue(Add32(m, adv - DelayMs), s)}

\* An age that is not yet running stays -1.
Aged(age, adv) == IF age >= 0 THEN age + adv ELSE -1

Init ==
    /\ pc = "setup"
    /\ ms = Zero32
    /\ sun = ZeroSunData
    /\ leds = Cleared
    /\ daylight = Cleared
    /\ accessed = {}
    /\ prevSun = ZeroSunData
    /\ rendered = ZeroSunData
    /\ now = Zero32
    /\ called = FALSE
    /\ ok = FALSE
    /\ currentSecond = 0
    /\ sinceUpdate = -1
    /\ updateAge = -1
    /\ callGap = -1
    /\ callAge = -1
    /\ ticks = 0
    /\ layout \in Layouts
    /\ winterSolsticeSunrise \in convertTimeToMinutes(<<48, 56, 58, 52, 55>>)   \* "08:47"
    /\ winterSolsticeSunset \in convertTimeToMinutes(<<49, 54, 58, 48, 50>>)   \* "16:02"
    /\ summerSolsticeSunrise \in convertTimeToMinutes(<<48, 51, 58, 52, 55>>)   \* "03:47"
    /\ summerSolsticeSunset \in convertTimeToMinutes(<<50, 48, 58, 51, 52>>)   \* "20:34"

\* Fixed by the build and by static initialisation.
fixed ==
    <<layout, winterSolsticeSunrise, winterSolsticeSunset,
      summerSolsticeSunrise, summerSolsticeSunset>>

Setup ==
    /\ pc = "setup"
    /\ pc' = "loop"
    /\ ms' \in SetupEnds
    /\ UNCHANGED <<sun, leds, daylight, accessed, prevSun, rendered, now,
                   called, ok, currentSecond, sinceUpdate, updateAge, callGap,
                   callAge, ticks, fixed>>

\* One iteration of loop().  Inputs: adv, the time since the last step;
\* lt, what localtime() returns; resp, the provider's answer when
\* getSunData() is called (none is consumed otherwise); adjR, see above.
\* s is sun as lines 199-201 read it, before the daylight loop runs.
\* A call of getSunData() takes FetchMs, whether it succeeds or fails.
Loop ==
    /\ pc = "loop"
    /\ ticks < MaxTicks
    /\ \E adv \in Advances(ticks, ms, sun), lt \in LocalTimes :
        LET t == Add32(ms, adv)
            due == UpdateDue(t, sun)
        IN  \E resp \in (IF due THEN Responses ELSE {CHOOSE f \in Failures : TRUE}) :
            LET s == IF due THEN getSunData(resp, Add32(t, FetchMs)) ELSE sun
                cs == SecondOfDay(lt)
            IN  \E adjR \in AdjacentBytes(s, layout) :
                LET afterDaylight == PaintDaylight(s, Cleared, adjR)
                    afterHours == PaintHours(s, afterDaylight)
                    afterSolstice == PaintSolstice(afterHours)
                IN  /\ sun' = AfterDaylight(s, layout, adjR)
                    /\ prevSun' = sun
                    /\ rendered' = s
                    /\ now' = t
                    /\ called' = due
                    /\ ok' = (due /\ Filled(resp))
                    /\ currentSecond' = cs
                    /\ daylight' = afterDaylight
                    /\ leds' = PaintCurrent(s, cs, afterSolstice)
                    /\ accessed' = Accessed(s, cs, adjR)
                    /\ ms' = IF due THEN Add32(t, FetchMs) ELSE t
                    /\ sinceUpdate' = Aged(updateAge, adv)
                    /\ updateAge' = IF ~due THEN Aged(updateAge, adv)
                                    ELSE IF Filled(resp) THEN 0 ELSE -1
                    /\ callGap' = IF due THEN Aged(callAge, adv) ELSE -1
                    /\ callAge' = IF due THEN FetchMs ELSE Aged(callAge, adv)
                    /\ ticks' = ticks + 1
                    /\ pc' = pc
                    /\ UNCHANGED fixed

Next == Setup \/ Loop

Spec == Init /\ [][Next]_vars

----------------------------------------------------------------------------
(* Properties *)

\* LED i lies in the daylight span of the SunData the last frame was
\* computed from.
InSpan(i) ==
    /\ sunriseLED(rendered) <= i
    /\ i <= sunsetLED(rendered)
    /\ i # solarNoonLED(rendered)

\* C1: a tick whose getSunData() call fails leaves all five fields of sun
\* as they were before the tick.
C1_StaleOnFailure == (called /\ ~ok) => sun = prevSun

\* C2: every index used to read or write leds[] during a render lies in
\* 0..NUM_LEDS-1.
C2_IndicesInBounds == \A i \in accessed : 0 <= i /\ i < 332

\* C3: in every flushed frame the LED at the solar-noon index is off
\* whenever that index is inside the strip.
C3_SolarNoonOff ==
    ticks > 0 =>
        LET p == (rendered.solarNoonMinutes * 60) \div 260
        IN  (0 <= p /\ p < 332) => leds[p] = Off

\* C4: the LED index of every minute-of-day held in SunData (sunrise, sunset,
\* solar noon, each in 0..1439) that a frame is computed from lies in
\* 0..NUM_LEDS-1.
C4_MinutePixelInRange ==
    \A m \in {rendered.sunriseMinutes, rendered.sunsetMinutes,
              rendered.solarNoonMinutes} :
        m \in 0..1439 => (0 <= (m * 60) \div SECONDS_PER_LED
                          /\ (m * 60) \div SECONDS_PER_LED <= NUM_LEDS - 1)

\* C5: a tick calls getSunData() exactly when millis() - lastUpdate, as an
\* unsigned 32-bit difference, exceeds 86,400,000 or lastUpdate is 0; at
\* exactly 86,400,000 ms after a non-zero lastUpdate there is no call; and the
\* frame of the tick is computed from the SunData as it is after the call.
C5_FetchTrigger ==
    ticks > 0 =>
        /\ called <=> (\/ Gt32(Sub32(now, prevSun.lastUpdate), FromInt(86400000))
                       \/ prevSun.lastUpdate = Zero32)
        /\ prevSun.lastUpdate # Zero32 => (called <=> sinceUpdate > 86400000)
        /\ (prevSun.lastUpdate # Zero32 /\ sinceUpdate = 86400000) => ~called
        /\ ~called => rendered = prevSun
        /\ (called /\ ~ok) => rendered = ZeroSunData
        /\ (called /\ ok) => rendered.lastUpdate = ms

\* A tick exactly one day after a successful update, with millis() wrapped
\* around in between, that did not call getSunData().
C5_Witness ==
    /\ ticks > 0
    /\ prevSun.lastUpdate # Zero32
    /\ sinceUpdate = 86400000
    /\ Gt32(prevSun.lastUpdate, now)
    /\ ~called

\* C6: a call of getSunData() comes more than 86,400,000 ms after the call
\* before it, whether that one succeeded or failed.
C6_OneCallPerDay == (called /\ callGap >= 0) => callGap > 86400000

\* C7: in every flushed frame each of the LEDs 121, 222, 52 and 284 is
\* bright green, unless the current-time marker is painted on it, and then
\* it is bright yellow.
C7_SolsticeMarkers ==
    ticks > 0 =>
        \A p \in {121, 222, 52, 284} :
            leds[p] = IF p = currentSecond \div 260 /\ InSpan(p) THEN Yellow ELSE Green

\* A frame with the current-time marker on one solstice LED and another
\* solstice LED green on top of the daylight span.
C7_Witness ==
    /\ ticks > 0
    /\ leds[121] = Yellow
    /\ daylight[222] = DimBlue
    /\ leds[222] = Green

\* C8: right after the daylight loop the dim-blue LEDs are exactly those from
\* sunriseLED to sunsetLED except solarNoonLED and every other LED is off; so
\* the flushed frame has no dim blue outside that range, and none at all when
\* sunriseLED > sunsetLED.
C8_ExactDaylightSpan ==
    ticks > 0 =>
        /\ \A i \in Pixels : daylight[i] = IF InSpan(i) THEN DimBlue ELSE Off
        /\ \A i \in Pixels : leds[i] = DimBlue => InSpan(i)
        /\ sunriseLED(rendered) > sunsetLED(rendered) =>
               \A i \in Pixels : leds[i] # DimBlue

\* A render whose span starts before and ends after the solar-noon LED.
C8_Witness ==
    /\ ticks > 0
    /\ sunriseLED(rendered) < solarNoonLED(rendered)
    /\ solarNoonLED(rendered) < sunsetLED(rendered)
    /\ sunsetLED(rendered) < NUM_LEDS
    /\ daylight[sunriseLED(rendered)] = DimBlue
    /\ daylight[solarNoonLED(rendered)] = Off
    /\ daylight[sunsetLED(rendered)] = DimBlue

\* C9: a flushed frame has at most one bright-yellow LED; LED p is yellow
\* exactly when p = currentSecond div 260, p is inside the strip, between
\* sunriseLED and sunsetLED and not solarNoonLED; from second 86320 on
\* there is no yellow LED.
C9_CurrentTimeMarker ==
    ticks > 0 =>
        /\ Cardinality({i \in Pixels : leds[i] = Yellow}) <= 1
        /\ \A p \in Pixels :
            leds[p] = Yellow <=> (p = currentSecond \div 260 /\ InSpan(p))
        /\ currentSecond >= 86320 => \A p \in Pixels : leds[p] # Yellow

\* A frame whose current-time marker replaced the red tick of hour 12.
C9_Witness ==
    /\ ticks > 0
    /\ currentSecond = 12 * 3600
    /\ hourLED(12) \in HourWritten(rendered)
    /\ leds[hourLED(12)] = Yellow

\* C10: a frame rendered from an all-zero SunData shows the 23 hour ticks of
\* hours 1..23 in dim red, the four solstice markers in bright green and
\* nothing else (LED 0 off, no dim blue, no yellow); and the tick after a
\* tick that left SunData all-zero calls getSunData().
C10_ZeroSunData ==
    ticks > 0 =>
        /\ rendered = ZeroSunData =>
            /\ sun = ZeroSunData
            /\ sunriseLED(rendered) = 0
            /\ sunsetLED(rendered) = 0
            /\ solarNoonLED(rendered) = 0
            /\ \A i \in Pixels :
                leds[i] = IF i \in {121, 222, 52, 284} THEN Green
                          ELSE IF \E h \in 1..23 : i = (h * 3600) \div 260 THEN DimRed
                          ELSE Off
            /\ Cardinality({i \in Pixels : leds[i] = DimRed}) = 23
            /\ leds[0] = Off
        /\ prevSun = ZeroSunData => called

\* Two failed calls in a row: the second tick starts from all-zero SunData.
C10_Witness ==
    /\ ticks >= 2
    /\ prevSun = ZeroSunData
    /\ rendered = ZeroSunData
    /\ called
    /\ ~ok
    /\ currentSecond = 0

====
